---- MODULE Spec2Model ----
(***************************************************************************)
(* Model of kharma/grid.hpp: the Grid facade, its three build-selected     *)
(* metric back ends (FAST_CARTESIAN, NO_CACHE, cached), the constructors,  *)
(* coord / coord_embed / lower / raise, and init_grids with its two        *)
(* Kokkos::parallel_for sweeps.                                            *)
(*                                                                         *)
(* Real values are modelled by integers; every metric the embedding        *)
(* collaborator of the model hands out is an integer matrix of             *)
(* determinant -1, so its inverse is an integer matrix too.                *)
(***************************************************************************)
EXTENDS Integers, FiniteSets, Sequences, TLC

(***************************************************************************)
(* Sizes of the mesh block (G.gn1, G.gn2 and the k extent).                *)
(***************************************************************************)
GN1 == 2
GN2 == 1
GN3 == 1

(***************************************************************************)
(* decs.hpp (not part of the examined source): NDIM, NLOC and the Loci     *)
(* enumerators, in the order the switch of Grid::coord lists them.         *)
(***************************************************************************)
NDIM == 4
NLOC == 5
face1 == 0
face2 == 1
face3 == 2
center == 3
corner == 4

Dims == 0 .. (NDIM - 1)
Locs == 0 .. (NLOC - 1)
IRange == 0 .. (GN1 - 1)
JRange == 0 .. (GN2 - 1)
KRange == 0 .. (GN3 - 1)
Zones == IRange \X JRange

Vec(a, b, c, d) == [m \in Dims |-> CASE m = 0 -> a [] m = 1 -> b [] m = 2 -> c [] OTHER -> d]
ZeroVec == [m \in Dims |-> 0]
ZeroMat == [mu \in Dims |-> [nu \in Dims |-> 0]]
ZeroConn == [mu \in Dims |-> [nu \in Dims |-> [lam \in Dims |-> 0]]]

(***************************************************************************)
(* The mesh-block collaborator: pmb->pcoord holds six 1-D arrays, the face *)
(* arrays one element longer than the centre arrays.                       *)
(***************************************************************************)
pcoord ==
  [x1f |-> [i \in 0 .. GN1 |-> 2 * i],
   x2f |-> [j \in 0 .. GN2 |-> 10 + 2 * j],
   x3f |-> [k \in 0 .. GN3 |-> 20 + 2 * k],
   x1v |-> [i \in IRange |-> 2 * i + 1],
   x2v |-> [j \in JRange |-> 11 + 2 * j],
   x3v |-> [k \in KRange |-> 21 + 2 * k]]

(***************************************************************************)
(* The embedding collaborator (coordinate_embedding.hpp, not part of the   *)
(* examined source).  An embedding is named by its shear strength e; its   *)
(* metric at X is S^T eta S with S = I + a E01 and a = e * (X1 + X2 - 10), *)
(* which has determinant -1 and depends on X1 and X2 only.                 *)
(***************************************************************************)
Embeddings == {1, 2}

Shear(e, X) == e * (X[1] + X[2] - 10)

gcov_native(e, X) ==
  LET a == Shear(e, X) IN
  [mu \in Dims |-> [nu \in Dims |->
     CASE mu = 0 /\ nu = 0 -> -1
       [] (mu = 0 /\ nu = 1) \/ (mu = 1 /\ nu = 0) -> -a
       [] mu = 1 /\ nu = 1 -> 1 - a * a
       [] mu = nu -> 1
       [] OTHER -> 0]]

Skip(r) == [n \in 0 .. 2 |-> IF n < r THEN n ELSE n + 1]

Det3(M, R, C) ==
    M[R[0]][C[0]] * (M[R[1]][C[1]] * M[R[2]][C[2]] - M[R[1]][C[2]] * M[R[2]][C[1]])
  - M[R[0]][C[1]] * (M[R[1]][C[0]] * M[R[2]][C[2]] - M[R[1]][C[2]] * M[R[2]][C[0]])
  + M[R[0]][C[2]] * (M[R[1]][C[0]] * M[R[2]][C[1]] - M[R[1]][C[1]] * M[R[2]][C[0]])

Cofactor(M, r, c) ==
  (IF (r + c) % 2 = 0 THEN 1 ELSE -1) * Det3(M, Skip(r), Skip(c))

Det4(M) ==
  M[0][0] * Cofactor(M, 0, 0) + M[0][1] * Cofactor(M, 0, 1)
  + M[0][2] * Cofactor(M, 0, 2) + M[0][3] * Cofactor(M, 0, 3)

Abs(n) == IF n < 0 THEN -n ELSE n

ISqrt(n) == CHOOSE r \in 0 .. n : r * r <= n /\ (r + 1) * (r + 1) > n

(***************************************************************************)
(* gcon_native inverts the covariant metric it is given and returns the    *)
(* determinant-derived scalar sqrt(|det|).                                 *)
(***************************************************************************)
gcon_native(e, g) ==
  LET det == Det4(g) IN
  [gcon |-> [mu \in Dims |-> [nu \in Dims |-> Cofactor(g, nu, mu) \div det]],
   gdet |-> ISqrt(Abs(det))]

conn_func(e, X) ==
  LET a == Shear(e, X) IN
  [mu \in Dims |-> [nu \in Dims |-> [lam \in Dims |-> a * (mu + 1) + nu + lam]]]

coord_to_embed(e, X) == Vec(X[0], e * X[1] + X[2], X[2] - X[3], X[3] + e)

(***************************************************************************)
(* State.                                                                  *)
(*   FAST_CARTESIAN, NO_CACHE  the two build switches                      *)
(*   coords, x1f .. x3v        members of the Grid                         *)
(*   gcon_direct .. conn_direct  the cache arrays                          *)
(*   pc, form                  where the host is, and the constructor used *)
(*   cs                        the by-value copy captured by the kernels   *)
(*   dispatched                kernels handed to the execution space       *)
(*   geomDone, connDone        units of work that have run                 *)
(*   writers, nwrites          per cache slot: who wrote it, how often     *)
(*   touched                   objects the kernels have accessed           *)
(*   ret                       the last call made on the Grid              *)
(***************************************************************************)
VARIABLES FAST_CARTESIAN, NO_CACHE, coords, x1f, x2f, x3f, x1v, x2v, x3v,
          gcon_direct, gcov_direct, gdet_direct, conn_direct,
          pc, form, cs, dispatched, geomDone, connDone,
          writers, nwrites, touched, ret

members == <<coords, x1f, x2f, x3f, x1v, x2v, x3v>>
build == <<FAST_CARTESIAN, NO_CACHE>>
cache == <<gcon_direct, gcov_direct, gdet_direct, conn_direct>>
sweep == <<cs, dispatched, geomDone, connDone, writers, nwrites, touched>>
vars == <<build, members, cache, pc, form, sweep, ret>>

EmptyArray == << >>
(***************************************************************************)
(* A CoordinateEmbedding* is either a pointer to an embedding or, when     *)
(* nothing has been assigned to it, indeterminate.                         *)
(***************************************************************************)
Indeterminate == [ptr |-> "indeterminate"]
PointerTo(e) == [ptr |-> "valid", at |-> e]
NoCall == [op |-> "none"]

MetricSlots == {"gcon", "gcov", "gdet"} \X Locs \X IRange \X JRange
ConnSlots == {"conn"} \X IRange \X JRange
Slots == MetricSlots \cup ConnSlots

(***************************************************************************)
(* The cache members are declared only when neither switch is set.         *)
(***************************************************************************)
CacheDeclared == FAST_CARTESIAN = 0 /\ NO_CACHE = 0

(***************************************************************************)
(* Under NO_CACHE the accessors name arrays that nothing has declared,     *)
(* allocated or filled: every element reads as the same arbitrary number   *)
(* c.  In the other builds the arrays are absent (FAST_CARTESIAN) or empty *)
(* until init_grids allocates them.                                        *)
(***************************************************************************)
Junk(c) ==
  [gcon |-> [s \in Locs \X IRange \X JRange |-> [mu \in Dims |-> [nu \in Dims |-> c]]],
   gcov |-> [s \in Locs \X IRange \X JRange |-> [mu \in Dims |-> [nu \in Dims |-> c]]],
   gdet |-> [s \in Locs \X IRange \X JRange |-> c],
   conn |-> [s \in IRange \X JRange |->
              [mu \in Dims |-> [nu \in Dims |-> [lam \in Dims |-> c]]]]]

JunkValues == {0, 1}

NoArrays == [gcon |-> EmptyArray, gcov |-> EmptyArray, gdet |-> EmptyArray,
             conn |-> EmptyArray]

Init ==
  /\ FAST_CARTESIAN \in {0, 1}
  /\ NO_CACHE \in {0, 1}
  /\ coords = Indeterminate
  /\ x1f = EmptyArray /\ x2f = EmptyArray /\ x3f = EmptyArray
  /\ x1v = EmptyArray /\ x2v = EmptyArray /\ x3v = EmptyArray
  /\ \E a \in (IF FAST_CARTESIAN = 0 /\ NO_CACHE = 1
                THEN {Junk(c) : c \in JunkValues} ELSE {NoArrays}) :
       /\ gcon_direct = a.gcon
       /\ gcov_direct = a.gcov
       /\ gdet_direct = a.gdet
       /\ conn_direct = a.conn
  /\ pc = "start"
  /\ form = "none"
  /\ cs = 0
  /\ dispatched = {}
  /\ geomDone = {}
  /\ connDone = {}
  /\ writers = [s \in Slots |-> {}]
  /\ nwrites = [s \in Slots |-> 0]
  /\ touched = {}
  /\ ret = NoCall

(***************************************************************************)
(* Grid::coord: native coordinates of (i,j,k) at a location.  coordPasted  *)
(* is coord with the face2 case left as a copy of the face1 case.          *)
(***************************************************************************)
coordPasted(i, j, k, loc) ==
  CASE loc = face1  -> Vec(0, x1f[i], x2v[j], x3v[k])
    [] loc = face2  -> Vec(0, x1f[i], x2v[j], x3v[k])
    [] loc = face3  -> Vec(0, x1v[i], x2v[j], x3f[k])
    [] loc = center -> Vec(0, x1v[i], x2v[j], x3v[k])
    [] loc = corner -> Vec(0, x1f[i], x2f[j], x3f[k])

coord(i, j, k, loc) ==
  CASE loc = face1  -> Vec(0, x1f[i], x2v[j], x3v[k])
    [] loc = face2  -> Vec(0, x1v[i], x2f[j], x3v[k])
    [] loc = face3  -> Vec(0, x1v[i], x2v[j], x3f[k])
    [] loc = center -> Vec(0, x1v[i], x2v[j], x3v[k])
    [] loc = corner -> Vec(0, x1f[i], x2f[j], x3f[k])

(***************************************************************************)
(* The members of G that a call of G.coord at loc reads.                   *)
(***************************************************************************)
coordReads(loc) ==
  CASE loc = face1  -> {"G.x1f", "G.x2v", "G.x3v"}
    [] loc = face2  -> {"G.x1v", "G.x2f", "G.x3v"}
    [] loc = face3  -> {"G.x1v", "G.x2v", "G.x3f"}
    [] loc = center -> {"G.x1v", "G.x2v", "G.x3v"}
    [] loc = corner -> {"G.x1f", "G.x2f", "G.x3f"}

(***************************************************************************)
(* init_grids has an empty body when either switch is set.                 *)
(* InitGridsEmptyFastOnly forgets the NO_CACHE half of the condition.      *)
(***************************************************************************)
InitGridsEmptyFastOnly == FAST_CARTESIAN = 1

InitGridsEmpty == FAST_CARTESIAN = 1 \/ NO_CACHE = 1

(***************************************************************************)
(* Grid(CoordinateEmbedding* coordinates, MeshBlock* pmb): declared in     *)
(* every build.  Sets coords and the six array handles, then calls         *)
(* init_grids; the empty init_grids returns at once.                       *)
(***************************************************************************)
GridCoordsPmb(coordinates) ==
  /\ pc = "start"
  /\ coords' = PointerTo(coordinates)
  /\ x1f' = pcoord.x1f /\ x2f' = pcoord.x2f /\ x3f' = pcoord.x3f
  /\ x1v' = pcoord.x1v /\ x2v' = pcoord.x2v /\ x3v' = pcoord.x3v
  /\ form' = "coordinates_pmb"
  /\ pc' = IF InitGridsEmpty THEN "constructed" ELSE "init_grids"
  /\ UNCHANGED <<build, cache, sweep, ret>>

(***************************************************************************)
(* Grid(MeshBlock* pmb): declared only under FAST_CARTESIAN.  Sets the six *)
(* array handles; coords gets no initializer and init_grids is not called. *)
(***************************************************************************)
GridPmb ==
  /\ pc = "start"
  /\ FAST_CARTESIAN = 1
  /\ x1f' = pcoord.x1f /\ x2f' = pcoord.x2f /\ x3f' = pcoord.x3f
  /\ x1v' = pcoord.x1v /\ x2v' = pcoord.x2v /\ x3v' = pcoord.x3v
  /\ form' = "pmb"
  /\ pc' = "constructed"
  /\ UNCHANGED <<build, coords, cache, sweep, ret>>

(***************************************************************************)
(* init_grids, cached build, up to the first parallel_for: allocate the    *)
(* four arrays (a labelled Kokkos view starts zero-filled), copy the       *)
(* handles into gcon_local .. conn_local (the copies alias the arrays) and *)
(* copy the collaborator into cs.                                          *)
(***************************************************************************)
InitGridsAllocate ==
  /\ pc = "init_grids"
  /\ gcon_direct' = [s \in Locs \X IRange \X JRange |-> ZeroMat]
  /\ gcov_direct' = [s \in Locs \X IRange \X JRange |-> ZeroMat]
  /\ gdet_direct' = [s \in Locs \X IRange \X JRange |-> 0]
  /\ conn_direct' = [s \in IRange \X JRange |-> ZeroConn]
  /\ cs' = coords.at
  /\ pc' = "init_geom"
  /\ UNCHANGED <<build, members, form, dispatched, geomDone, connDone,
                 writers, nwrites, touched, ret>>

(***************************************************************************)
(* Kokkos::parallel_for hands the kernel to the execution space and may    *)
(* return before the kernel has run; init_grids issues no fence.           *)
(***************************************************************************)
ParallelForInitGeom ==
  /\ pc = "init_geom"
  /\ dispatched' = dispatched \cup {"init_geom"}
  /\ pc' = "init_conn"
  /\ UNCHANGED <<build, members, cache, form, cs, geomDone, connDone,
                 writers, nwrites, touched, ret>>

(***************************************************************************)
(* The second parallel_for, FLAG and the return of init_grids and of the   *)
(* constructor.                                                            *)
(***************************************************************************)
ParallelForInitConn ==
  /\ pc = "init_conn"
  /\ dispatched' = dispatched \cup {"init_conn"}
  /\ pc' = "constructed"
  /\ UNCHANGED <<build, members, cache, form, cs, geomDone, connDone,
                 writers, nwrites, touched, ret>>

(***************************************************************************)
(* The cache element a unit (i,j) of init_geom writes for location loc.    *)
(* GeomTargetRow is the indexing slip that drops i.                        *)
(***************************************************************************)
GeomTargetRow(loc, i, j) == <<loc, 0, j>>

GeomTarget(loc, i, j) == <<loc, i, j>>

GeomWritten(i, j) == {<<a, GeomTarget(loc, i, j)>> : a \in {"gcon", "gcov", "gdet"}, loc \in Locs}

SlotOf(w) == IF w[1] = "conn" THEN <<"conn", w[2][1], w[2][2]>>
             ELSE <<w[1], w[2][1], w[2][2], w[2][3]>>

Logged(unit, ws) ==
  /\ writers' = [s \in Slots |->
                   IF \E w \in ws : SlotOf(w) = s THEN writers[s] \cup {unit} ELSE writers[s]]
  /\ nwrites' = [s \in Slots |->
                   nwrites[s] + Cardinality({w \in ws : SlotOf(w) = s})]

(***************************************************************************)
(* One unit of work of "init_geom": for every loc, G.coord, cs.gcov_native,*)
(* cs.gcon_native, then the stores into gdet_local, gcov_local, gcon_local.*)
(***************************************************************************)
GeomValueAtCenter(i, j, loc) ==
  LET X == coord(i, j, 0, center)
      gcov_loc == gcov_native(cs, X)
      inv == gcon_native(cs, gcov_loc)
  IN [gcov |-> gcov_loc, gcon |-> inv.gcon, gdet |-> inv.gdet]

GeomValue(i, j, loc) ==
  LET X == coord(i, j, 0, loc)
      gcov_loc == gcov_native(cs, X)
      inv == gcon_native(cs, gcov_loc)
  IN [gcov |-> gcov_loc, gcon |-> inv.gcon, gdet |-> inv.gdet]

InitGeomUnit(i, j) ==
  /\ ret = NoCall
  /\ "init_geom" \in dispatched
  /\ <<i, j>> \notin geomDone
  /\ LET val == [loc \in Locs |-> GeomValue(i, j, loc)]
         tgt == [loc \in Locs |-> GeomTarget(loc, i, j)]
         hit(s) == {loc \in Locs : tgt[loc] = s}
         last(s) == CHOOSE loc \in hit(s) : \A l \in hit(s) : l <= loc
     IN /\ gdet_direct' = [s \in DOMAIN gdet_direct |->
                             IF hit(s) = {} THEN gdet_direct[s] ELSE val[last(s)].gdet]
        /\ gcov_direct' = [s \in DOMAIN gcov_direct |->
                             IF hit(s) = {} THEN gcov_direct[s] ELSE val[last(s)].gcov]
        /\ gcon_direct' = [s \in DOMAIN gcon_direct |->
                             IF hit(s) = {} THEN gcon_direct[s] ELSE val[last(s)].gcon]
  /\ Logged(<<"init_geom", i, j>>, GeomWritten(i, j))
  /\ touched' = touched \cup {"cs", "gdet_local", "gcov_local", "gcon_local"}
                        \cup UNION {coordReads(loc) : loc \in Locs}
  /\ geomDone' = geomDone \cup {<<i, j>>}
  /\ UNCHANGED <<build, members, conn_direct, pc, form, cs, dispatched, connDone, ret>>

(***************************************************************************)
(* One unit of work of "init_conn": G.coord at the centre, cs.conn_func,   *)
(* then the stores into conn_local.  Kernels of one execution space run in *)
(* the order they were handed over.                                        *)
(***************************************************************************)
ConnTarget(i, j) == <<i, j>>

InitConnUnit(i, j) ==
  /\ ret = NoCall
  /\ "init_conn" \in dispatched
  /\ geomDone = Zones
  /\ <<i, j>> \notin connDone
  /\ conn_direct' = [conn_direct EXCEPT ![ConnTarget(i, j)] = conn_func(cs, coord(i, j, 0, center))]
  /\ Logged(<<"init_conn", i, j>>, {<<"conn", ConnTarget(i, j)>>})
  /\ touched' = touched \cup {"cs", "conn_local"} \cup coordReads(center)
  /\ connDone' = connDone \cup {<<i, j>>}
  /\ UNCHANGED <<build, members, gcon_direct, gcov_direct, gdet_direct, pc, form, cs,
                 dispatched, geomDone, ret>>

(***************************************************************************)
(* Which preprocessor branch the metric accessors are compiled from:       *)
(* closed forms under FAST_CARTESIAN; otherwise, under NO_CACHE and in the *)
(* cached build alike, reads of gcon_direct .. conn_direct.                *)
(***************************************************************************)
Backend == IF FAST_CARTESIAN = 1 THEN "closed_form" ELSE "direct_array"

B(cond) == IF cond THEN 1 ELSE 0

(***************************************************************************)
(* Single-component accessors.  gcovEitherZero is gcov with || for &&.     *)
(***************************************************************************)
gcon(loc, i, j, mu, nu) ==
  IF FAST_CARTESIAN = 1 THEN -2 * B(mu = 0 /\ nu = 0) + B(mu = nu)
  ELSE gcon_direct[<<loc, i, j>>][mu][nu]

gcovEitherZero(loc, i, j, mu, nu) ==
  IF FAST_CARTESIAN = 1 THEN -2 * B(mu = 0 \/ nu = 0) + B(mu = nu)
  ELSE gcov_direct[<<loc, i, j>>][mu][nu]

gcov(loc, i, j, mu, nu) ==
  IF FAST_CARTESIAN = 1 THEN -2 * B(mu = 0 /\ nu = 0) + B(mu = nu)
  ELSE gcov_direct[<<loc, i, j>>][mu][nu]

gdet(loc, i, j) ==
  IF FAST_CARTESIAN = 1 THEN 1 ELSE gdet_direct[<<loc, i, j>>]

conn(i, j, mu, nu, lam) ==
  IF FAST_CARTESIAN = 1 THEN 0 ELSE conn_direct[<<i, j>>][mu][nu][lam]

(***************************************************************************)
(* Full-tensor overloads (DLOOP2 / DLOOP3 over the output array).  They    *)
(* exist under FAST_CARTESIAN and in the cached build, not under NO_CACHE. *)
(***************************************************************************)
HasFullOverloads == FAST_CARTESIAN = 1 \/ NO_CACHE = 0

gcon_full(loc, i, j) ==
  [mu \in Dims |-> [nu \in Dims |->
     IF FAST_CARTESIAN = 1 THEN -2 * B(mu = 0 /\ nu = 0) + B(mu = nu)
     ELSE gcon_direct[<<loc, i, j>>][mu][nu]]]

gcov_full(loc, i, j) ==
  [mu \in Dims |-> [nu \in Dims |->
     IF FAST_CARTESIAN = 1 THEN -2 * B(mu = 0 /\ nu = 0) + B(mu = nu)
     ELSE gcov_direct[<<loc, i, j>>][mu][nu]]]

conn_full(i, j) ==
  [mu \in Dims |-> [nu \in Dims |-> [lam \in Dims |->
     IF FAST_CARTESIAN = 1 THEN 0 ELSE conn_direct[<<i, j>>][mu][nu][lam]]]]

(***************************************************************************)
(* Grid::lower and Grid::raise: zero the output, then accumulate over      *)
(* DLOOP2.  k is accepted and not used.                                    *)
(***************************************************************************)
lower(vcon, i, j, k, loc) ==
  [mu \in Dims |->
     0 + gcov(loc, i, j, mu, 0) * vcon[0] + gcov(loc, i, j, mu, 1) * vcon[1]
       + gcov(loc, i, j, mu, 2) * vcon[2] + gcov(loc, i, j, mu, 3) * vcon[3]]

raise(vcov, i, j, k, loc) ==
  [mu \in Dims |->
     0 + gcon(loc, i, j, mu, 0) * vcov[0] + gcon(loc, i, j, mu, 1) * vcov[1]
       + gcon(loc, i, j, mu, 2) * vcov[2] + gcon(loc, i, j, mu, 3) * vcov[3]]

(***************************************************************************)
(* Calls on a constructed Grid.  ret records the call, what it returned,   *)
(* the branch that answered (via) and, for a read of a cache array,        *)
(* whether the element read had been written by the fill (filled).  ret    *)
(* holds one result at a time: the caller drops it (Drop) before its next  *)
(* call, except that raise may take what lower has just returned.  The     *)
(* calls read the Grid and change nothing of it, so a result is taken as   *)
(* of the state in which the call is made: the fill moves on only between  *)
(* calls.  A caller of a single-component accessor asks for every          *)
(* component (mu, nu[, lam]) of the point, and val holds them all.         *)
(***************************************************************************)
Filled(array, loc, i, j) ==
  IF Backend = "closed_form" THEN TRUE ELSE nwrites[<<array, loc, i, j>>] > 0

FilledConn(i, j) ==
  IF Backend = "closed_form" THEN TRUE ELSE nwrites[<<"conn", i, j>>] > 0

Frame == UNCHANGED <<build, members, cache, pc, form, sweep>>

CallGcon(loc, i, j) ==
  /\ pc = "constructed"
  /\ ret = NoCall
  /\ ret' = [op |-> "gcon", loc |-> loc, i |-> i, j |-> j,
             val |-> [mu \in Dims |-> [nu \in Dims |-> gcon(loc, i, j, mu, nu)]],
             via |-> Backend,
             filled |-> Filled("gcon", loc, i, j)]
  /\ Frame

CallGcov(loc, i, j) ==
  /\ pc = "constructed"
  /\ ret = NoCall
  /\ ret' = [op |-> "gcov", loc |-> loc, i |-> i, j |-> j,
             val |-> [mu \in Dims |-> [nu \in Dims |-> gcov(loc, i, j, mu, nu)]],
             via |-> Backend,
             filled |-> Filled("gcov", loc, i, j)]
  /\ Frame

CallGdet(loc, i, j) ==
  /\ pc = "constructed"
  /\ ret = NoCall
  /\ ret' = [op |-> "gdet", loc |-> loc, i |-> i, j |-> j,
             val |-> gdet(loc, i, j), via |-> Backend,
             filled |-> Filled("gdet", loc, i, j)]
  /\ Frame

CallConn(i, j) ==
  /\ pc = "constructed"
  /\ ret = NoCall
  /\ ret' = [op |-> "conn", i |-> i, j |-> j,
             val |-> [mu \in Dims |-> [nu \in Dims |-> [lam \in Dims |->
                        conn(i, j, mu, nu, lam)]]],
             via |-> Backend,
             filled |-> FilledConn(i, j)]
  /\ Frame

CallGconFull(loc, i, j) ==
  /\ pc = "constructed"
  /\ ret = NoCall
  /\ HasFullOverloads
  /\ ret' = [op |-> "gcon_full", loc |-> loc, i |-> i, j |-> j,
             val |-> gcon_full(loc, i, j), via |-> Backend,
             filled |-> Filled("gcon", loc, i, j)]
  /\ Frame

CallGcovFull(loc, i, j) ==
  /\ pc = "constructed"
  /\ ret = NoCall
  /\ HasFullOverloads
  /\ ret' = [op |-> "gcov_full", loc |-> loc, i |-> i, j |-> j,
             val |-> gcov_full(loc, i, j), via |-> Backend,
             filled |-> Filled("gcov", loc, i, j)]
  /\ Frame

CallConnFull(i, j) ==
  /\ pc = "constructed"
  /\ ret = NoCall
  /\ HasFullOverloads
  /\ ret' = [op |-> "conn_full", i |-> i, j |-> j,
             val |-> conn_full(i, j), via |-> Backend,
             filled |-> FilledConn(i, j)]
  /\ Frame

CallCoord(i, j, k, loc) ==
  /\ pc = "constructed"
  /\ ret = NoCall
  /\ ret' = [op |-> "coord", i |-> i, j |-> j, k |-> k, loc |-> loc,
             val |-> coord(i, j, k, loc)]
  /\ Frame

(***************************************************************************)
(* Grid::coord_embed: coord, then coords->coord_to_embed.  When no         *)
(* constructor has set coords the pointer is indeterminate: the call       *)
(* faults, or runs coord_to_embed of whatever the pointer happens to reach.*)
(***************************************************************************)
coord_embed(i, j, k, loc) ==
  LET Xnative == coord(i, j, k, loc) IN
  IF coords.ptr = "valid"
  THEN {[fault |-> FALSE, Xembed |-> coord_to_embed(coords.at, Xnative)]}
  ELSE {[fault |-> TRUE, Xembed |-> ZeroVec]}
       \cup {[fault |-> FALSE, Xembed |-> coord_to_embed(e, Xnative)] : e \in Embeddings}

CallCoordEmbed(i, j, k, loc) ==
  /\ pc = "constructed"
  /\ ret = NoCall
  /\ \E out \in coord_embed(i, j, k, loc) :
       ret' = [op |-> "coord_embed", i |-> i, j |-> j, k |-> k, loc |-> loc,
               val |-> out.Xembed, fault |-> out.fault]
  /\ Frame

Vectors == {Vec(1, 0, 0, 0), Vec(0, 1, 0, 0), Vec(2, -1, 3, 1)}

CallLower(vcon, i, j, k, loc) ==
  /\ pc = "constructed"
  /\ ret = NoCall
  /\ ret' = [op |-> "lower", i |-> i, j |-> j, k |-> k, loc |-> loc,
             vcon |-> vcon, val |-> lower(vcon, i, j, k, loc), via |-> Backend,
             filled |-> Filled("gcov", loc, i, j)]
  /\ Frame

(***************************************************************************)
(* raise, applied to a fresh vector or, at the same point, to what the     *)
(* preceding lower returned; in the latter case ret keeps the vector that  *)
(* was lowered (lowered), so that the round trip can be read off.          *)
(***************************************************************************)
RaiseInputs == IF ret.op = "lower" THEN {ret.val} ELSE Vectors

CallRaise(vcov, i, j, k, loc) ==
  /\ pc = "constructed"
  /\ ret.op \in {"none", "lower"}
  /\ ret.op = "lower" => <<ret.i, ret.j, ret.k, ret.loc>> = <<i, j, k, loc>>
  /\ ret' = [op |-> "raise", i |-> i, j |-> j, k |-> k, loc |-> loc,
             vcov |-> vcov, val |-> raise(vcov, i, j, k, loc), via |-> Backend,
             filled |-> Filled("gcon", loc, i, j)
                        /\ (ret.op = "lower" => ret.filled),
             lowered |-> IF ret.op = "lower" THEN {ret.vcon} ELSE {}]
  /\ Frame

Drop ==
  /\ ret # NoCall
  /\ ret' = NoCall
  /\ Frame

Construct ==
  \/ \E coordinates \in Embeddings : GridCoordsPmb(coordinates)
  \/ GridPmb
  \/ InitGridsAllocate
  \/ ParallelForInitGeom
  \/ ParallelForInitConn

Kernels ==
  \/ \E i \in IRange, j \in JRange : InitGeomUnit(i, j)
  \/ \E i \in IRange, j \in JRange : InitConnUnit(i, j)

Calls ==
  \/ \E loc \in Locs, i \in IRange, j \in JRange : CallGcon(loc, i, j)
  \/ \E loc \in Locs, i \in IRange, j \in JRange : CallGcov(loc, i, j)
  \/ \E loc \in Locs, i \in IRange, j \in JRange : CallGdet(loc, i, j)
  \/ \E i \in IRange, j \in JRange : CallConn(i, j)
  \/ \E loc \in Locs, i \in IRange, j \in JRange : CallGconFull(loc, i, j)
  \/ \E loc \in Locs, i \in IRange, j \in JRange : CallGcovFull(loc, i, j)
  \/ \E i \in IRange, j \in JRange : CallConnFull(i, j)
  \/ \E i \in IRange, j \in JRange, k \in KRange, loc \in Locs : CallCoord(i, j, k, loc)
  \/ \E i \in IRange, j \in JRange, k \in KRange, loc \in Locs : CallCoordEmbed(i, j, k, loc)
  \/ \E vcon \in Vectors, i \in IRange, j \in JRange, k \in KRange, loc \in Locs :
       CallLower(vcon, i, j, k, loc)
  \/ \E vcov \in RaiseInputs, i \in IRange, j \in JRange, k \in KRange, loc \in Locs :
       CallRaise(vcov, i, j, k, loc)

Next == Construct \/ Kernels \/ Calls \/ Drop

Spec == Init /\ [][Next]_vars

(***************************************************************************)
(* Properties.                                                             *)
(***************************************************************************)
MetricOps == {"gcon", "gcov", "gdet", "conn", "gcon_full", "gcov_full", "conn_full"}
ReadingOps == MetricOps \cup {"lower", "raise"}

Minkowski == [mu \in Dims |-> [nu \in Dims |->
                IF mu # nu THEN 0 ELSE IF mu = 0 THEN -1 ELSE 1]]

FillComplete == geomDone = Zones /\ connDone = Zones

(* C1: in the cached build the constructor has not returned before both    *)
(* passes have run every unit, and no accessor call (gcov, gcon, gdet,     *)
(* conn, lower, raise) reads a cache element the fill has not written.     *)
C1_ReturnAfterFill ==
  CacheDeclared =>
    /\ pc = "constructed" => FillComplete
    /\ ret.op \in ReadingOps => ret.filled

(* C2: whatever the order in which the units of init_geom and init_conn    *)
(* run, no cache element has two writers, a unit writes only elements of   *)
(* its own (i,j), and what an element holds once written is a function of  *)
(* cs and the coordinates alone, so of nothing another unit wrote.         *)
C2_DisjointWrites ==
  /\ \A s \in Slots : Cardinality(writers[s]) <= 1
  /\ \A s \in MetricSlots : \A u \in writers[s] :
       u[1] = "init_geom" /\ <<u[2], u[3]>> = <<s[3], s[4]>>
  /\ \A s \in ConnSlots : \A u \in writers[s] :
       u[1] = "init_conn" /\ <<u[2], u[3]>> = <<s[2], s[3]>>
  /\ \A s \in MetricSlots :
       (s[1] = "gcov" /\ writers[s] # {}) =>
          gcov_direct[<<s[2], s[3], s[4]>>] = gcov_native(cs, coord(s[3], s[4], 0, s[2]))

C2_TwoUnitsRan == Cardinality(geomDone) >= 2 /\ Cardinality(connDone) >= 1

(* C3: the units of work of the two sweeps access only the copy cs and the *)
(* copied handles gcon_local, gcov_local, gdet_local, conn_local, and no   *)
(* member of G.                                                            *)
C3_KernelsTouchOnlyCopies ==
  touched \subseteq {"cs", "gcon_local", "gcov_local", "gdet_local", "conn_local"}

(* C4: under FAST_CARTESIAN, gcov and gcon are diag(-1,1,1,1), gdet is 1   *)
(* and conn is 0, for every location and (i,j), through the                *)
(* single-component and the full-tensor overloads alike.                   *)
C4_FlatClosedForms ==
  FAST_CARTESIAN = 1 =>
    /\ ret.op \in {"gcon", "gcov", "gcon_full", "gcov_full"} => ret.val = Minkowski
    /\ ret.op = "gdet" => ret.val = 1
    /\ ret.op \in {"conn", "conn_full"} => ret.val = ZeroConn

C4_FlatAnswered ==
  /\ FAST_CARTESIAN = 1
  /\ ret.op = "gcov"
  /\ ret.loc = face2
  /\ ret.i = GN1 - 1
  /\ ret.val[0][0] = -1

(* C5: under NO_CACHE (without FAST_CARTESIAN) every call of gcon, gcov,   *)
(* gdet and conn is answered by the embedding collaborator, at the native  *)
(* coordinate of (loc,i,j), and reads no cache array.                      *)
C5_DirectForwards ==
  (FAST_CARTESIAN = 0 /\ NO_CACHE = 1 /\ coords.ptr = "valid") =>
    /\ ret.op \in MetricOps => ret.via = "collaborator"
    /\ ret.op = "gcov" =>
         ret.val = gcov_native(coords.at, coord(ret.i, ret.j, 0, ret.loc))
    /\ ret.op = "gcon" =>
         ret.val = gcon_native(coords.at,
                     gcov_native(coords.at, coord(ret.i, ret.j, 0, ret.loc))).gcon
    /\ ret.op = "gdet" =>
         ret.val = gcon_native(coords.at,
                     gcov_native(coords.at, coord(ret.i, ret.j, 0, ret.loc))).gdet
    /\ ret.op = "conn" =>
         ret.val = conn_func(coords.at, coord(ret.i, ret.j, 0, center))

C7_RoundTrip ==
  /\ (ret.op = "raise" /\ ret.lowered # {}) => ret.val \in ret.lowered
  /\ (FAST_CARTESIAN = 1 /\ ret.op = "lower" /\ ret.vcon = Vec(1, 0, 0, 0)) =>
        ret.val = Vec(-1, 0, 0, 0)

(* C8: coord returns X[0] = 0 and, on each spatial axis, the mesh block's  *)
(* face array where the location staggers that axis (face1: axis 1, face2: *)
(* axis 2, face3: axis 3, corner: all, center: none) and its centre array  *)
(* elsewhere; so coord at face1 and at center differ in X[1] only.         *)
C8_CoordSelection ==
  ret.op = "coord" =>
    /\ ret.val[0] = 0
    /\ ret.val[1] = IF ret.loc \in {face1, corner}
                    THEN pcoord.x1f[ret.i] ELSE pcoord.x1v[ret.i]
    /\ ret.val[2] = IF ret.loc \in {face2, corner}
                    THEN pcoord.x2f[ret.j] ELSE pcoord.x2v[ret.j]
    /\ ret.val[3] = IF ret.loc \in {face3, corner}
                    THEN pcoord.x3f[ret.k] ELSE pcoord.x3v[ret.k]
    /\ ret.loc = face1 =>
         \A m \in Dims \ {1} : ret.val[m] = coord(ret.i, ret.j, ret.k, center)[m]

C8_CoordCalled ==
  /\ ret.op = "coord"
  /\ ret.loc = face2
  /\ ret.i = GN1 - 1
  /\ ret.val[2] = pcoord.x2f[ret.j]

(* C9: on a Grid built by either constructor, coord_embed returns the      *)
(* collaborator's coord_to_embed of coord(i,j,k,loc), through a coords     *)
(* pointer the constructor has set.                                        *)
C9_CoordEmbed ==
  ret.op = "coord_embed" =>
    /\ coords.ptr = "valid"
    /\ ~ret.fault
    /\ ret.val = coord_to_embed(coords.at, coord(ret.i, ret.j, ret.k, ret.loc))

====
